---- MODULE Spec2Model ----
(***************************************************************************)
(* Model of src/commands/decompress.rs: decompress_file and smart_unpack.  *)
(* One run of decompress_file is a walk of pc from "start" to "done".      *)
(* External collaborators (the codecs, the archive extractors, the prompt  *)
(* functions, the operating system) answer nondeterministically.           *)
(***************************************************************************)
EXTENDS Integers, Sequences, FiniteSets, TLC

\* ------------------------------------------------------------------ bounds
MaxLen == 2
MaxEntries == 2

\* ------------------------------------------------------- data definitions
Layerable == {"Gzip", "Bzip", "Lz4", "Lzma", "Snappy", "Zstd"}

Archive == {"Tar", "Zip", "Rar", "SevenZip"}

CompressionFormat == Layerable \cup Archive

\* An Extension as decompress_file sees it: its compression_formats slice.
Extension(f) == [compression_formats |-> <<f>>]

Extensions == {Extension(f) : f \in CompressionFormat}

FormatDescriptors == UNION {[1..n -> Extensions] : n \in 1..MaxLen}

Payloads == {"p1", "p2"}

input_file_path == "in/archive"

output_dir == "out"

output_file_path == "out/archive"

TempPaths == {input_file_path, "tmp/.tmp0"}

RECURSIVE Reverse(_)
Reverse(s) == IF s = <<>> THEN <<>> ELSE Append(Reverse(Tail(s)), Head(s))

RECURSIVE flatten_compression_formats(_)
flatten_compression_formats(exts) ==
    IF exts = <<>> THEN <<>>
    ELSE Head(exts).compression_formats \o flatten_compression_formats(Tail(exts))

\* (first format, the remaining formats), as the caller destructures it.
split_first_compression_format(exts) ==
    LET flat == flatten_compression_formats(exts)
    IN  <<Head(flat), Tail(flat)>>

\* A byte stream: payload bytes wrapped in compression layers, Head(layers)
\* being the outermost layer; ok = FALSE is a stream whose read fails.
Stream(ls, p) == [ok |-> TRUE, layers |-> ls, payload |-> p]

BadStream == [ok |-> FALSE, layers |-> <<>>, payload |-> "none"]

\* What reading through one decoder of format f yields from stream s.
DecodeLayer(f, s) ==
    IF s.ok /\ s.layers # <<>> /\ Head(s.layers) = f
    THEN Stream(Tail(s.layers), s.payload)
    ELSE BadStream

\* What reading through a chain of decoders yields; ds[1] reads the raw input
\* and each further decoder reads the previous one's output.
RECURSIVE ReadThrough(_, _)
ReadThrough(ds, s) ==
    IF ds = <<>> THEN s ELSE ReadThrough(Tail(ds), DecodeLayer(Head(ds), s))

\* The encoder chain matching a descriptor listed outermost first.
EncodeOutermostFirst(fs, p) == Stream(fs, p)

LayersOf(fs) == SelectSeq(fs, LAMBDA f : f \in Layerable)

ContentLayers(fs) == {LayersOf(fs), Reverse(LayersOf(fs)), <<>>}

Count(ev, e) == Cardinality({i \in DOMAIN ev : ev[i] = e})

Pos(ev, e) == IF \E i \in DOMAIN ev : ev[i] = e
              THEN CHOOSE i \in DOMAIN ev : ev[i] = e /\ \A j \in DOMAIN ev : ev[j] = e => i <= j
              ELSE 0

Has(ev, e) == Count(ev, e) > 0

VARIABLES
    formats,          \* argument: Vec<Extension>
    content,          \* bytes of the file at input_file_path
    unrar,            \* build configuration: feature "unrar"
    pc,               \* position in decompress_file / smart_unpack
    fs_dirs,          \* directories that exist
    fs_files,         \* regular files that exist
    first_extension,  \* local of decompress_file
    extensions,       \* local of decompress_file
    todo,             \* formats the chaining loop still has to visit
    reader,           \* decoder chain over the input file, innermost decoder first
    vec,              \* in-memory buffer, {} until filled
    temp_file,        \* the NamedTempFile owned by the run, {} or {path}
    temp_content,     \* bytes spooled into the temporary file
    out_content,      \* bytes written to the file at output_file_path
    unpack_fn,        \* the closure handed to smart_unpack, {} or {closure}
    unpack_arg,       \* path the closure was called with, {} or {path}
    unpack_read,      \* stream the extractor read, {} or {stream}
    unpack_result,    \* what the closure returned, {} or {result}
    return_site,      \* which call of smart_unpack is running
    create_dir_result,\* outcome of fs::create_dir in smart_unpack
    files_unpacked,   \* local of decompress_file, {} or {n}
    reported,         \* file count of the final status message, {} or {n}
    result,           \* outcome of the run
    events            \* side effects of the run, in order

vars == <<formats, content, unrar, pc, fs_dirs, fs_files, first_extension,
          extensions, todo, reader, vec, temp_file, temp_content, out_content,
          unpack_fn, unpack_arg, unpack_read, unpack_result, return_site,
          create_dir_result, files_unpacked, reported, result, events>>

inputs == <<formats, content, unrar>>

locals == <<first_extension, extensions, todo, reader>>

unpacking == <<unpack_fn, unpack_arg, unpack_read, unpack_result, return_site>>

Init ==
    /\ formats \in FormatDescriptors
    /\ \E ls \in ContentLayers(flatten_compression_formats(formats)), p \in Payloads :
           content = Stream(ls, p)
    /\ unrar \in BOOLEAN
    /\ pc = "start"
    /\ fs_dirs \in {{}, {output_dir}, {output_dir, output_file_path}}
    /\ fs_files = {input_file_path}
    /\ first_extension = "none"
    /\ extensions = <<>>
    /\ todo = <<>>
    /\ reader = <<>>
    /\ vec = {}
    /\ temp_file = {}
    /\ temp_content = {}
    /\ out_content = {}
    /\ unpack_fn = {}
    /\ unpack_arg = {}
    /\ unpack_read = {}
    /\ unpack_result = {}
    /\ return_site = "none"
    /\ create_dir_result = "none"
    /\ files_unpacked = {}
    /\ reported = {}
    /\ result = "Running"
    /\ events = <<>>

fsys == <<fs_dirs, fs_files>>

temp == <<temp_file, temp_content>>

\* decompress_file returns (or panics) with outcome r.
Finish(r) ==
    /\ pc' = "done"
    /\ result' = r

Log(es) == events' = events \o es

DropTempFile_Leaked == UNCHANGED <<fs_files, temp_file>>

\* Drop of the NamedTempFile: the file is deleted from the filesystem.
DropTempFile ==
    /\ fs_files' = fs_files \ temp_file
    /\ temp_file' = {}

\* ------------------------------------------------------- decompress_file
\* assert!(output_dir.exists()); fs::File::open(input_file_path)?
Open ==
    /\ pc = "start"
    /\ IF output_dir \notin fs_dirs
       THEN Finish("Panic") /\ UNCHANGED events
       ELSE /\ Log(<<"open_input">>)
            /\ \E opened \in BOOLEAN :
                   IF opened THEN pc' = "opened" /\ UNCHANGED result
                             ELSE Finish("ErrOpen")
    /\ UNCHANGED <<inputs, locals, fsys, temp, unpacking, vec, out_content,
                   create_dir_result, files_unpacked, reported>>

IsSoleZip_Never == FALSE

\* if let [Extension { compression_formats: [Zip], .. }] = formats.as_slice()
IsSoleZip ==
    /\ Len(formats) = 1
    /\ formats[1].compression_formats = <<"Zip">>

\* zip::ZipArchive::new(reader)? directly on the opened input file
SoleZipOpen ==
    /\ pc = "opened"
    /\ IsSoleZip
    /\ Log(<<"zip_open">>)
    /\ \E valid \in BOOLEAN :
           IF valid /\ content.layers = <<>>
           THEN /\ unpack_fn' = {[kind |-> "zip", src |-> "file", path |-> "none"]}
                /\ return_site' = "sole_zip"
                /\ pc' = "smart_unpack"
                /\ UNCHANGED result
           ELSE /\ Finish("ErrZip")
                /\ UNCHANGED <<unpack_fn, return_site>>
    /\ UNCHANGED <<inputs, locals, fsys, temp, unpack_arg, unpack_read,
                   unpack_result, vec, out_content, create_dir_result,
                   files_unpacked, reported>>

\* The closure chain_reader_decoder: wraps decoder in one more decoder.
chain_reader_decoder(format, decoder) ==
    IF format \in Layerable
    THEN [kind |-> "Ok", decoder |-> Append(decoder, format)]
    ELSE [kind |-> "unreachable", decoder |-> decoder]

\* let (first_extension, extensions) = split_first_compression_format(&formats)
SplitFirst ==
    /\ pc = "opened"
    /\ ~IsSoleZip
    /\ LET split == split_first_compression_format(formats)
       IN  /\ first_extension' = split[1]
           /\ extensions' = split[2]
           /\ todo' = Reverse(split[2])
           /\ pc' = IF split[2] = <<>> THEN "dispatch" ELSE "chain"
    /\ UNCHANGED <<inputs, reader, fsys, temp, unpacking, vec, out_content,
                   create_dir_result, files_unpacked, reported, result, events>>

\* One iteration of: for format in extensions.iter().rev() { reader = ...? }
ChainStep ==
    /\ pc = "chain"
    /\ todo # <<>>
    /\ LET got == chain_reader_decoder(Head(todo), reader)
       IN  \/ /\ got.kind = "unreachable"
              /\ Finish("Panic")
              /\ UNCHANGED <<reader, todo, events>>
           \/ /\ got.kind = "Ok"
              /\ reader' = got.decoder
              /\ todo' = Tail(todo)
              /\ pc' = IF Tail(todo) = <<>> THEN "dispatch" ELSE "chain"
              /\ Log(<<"decoder">>)
              /\ UNCHANGED result
           \/ /\ Head(todo) = "Zstd"
              /\ Finish("ErrDecoder")
              /\ UNCHANGED <<reader, todo, events>>
    /\ UNCHANGED <<inputs, first_extension, extensions, fsys, temp, unpacking,
                   vec, out_content, create_dir_result, files_unpacked, reported>>

\* Gzip | Bzip | Lz4 | Lzma | Snappy | Zstd => reader = chain_reader_decoder(..)?
ArmLayerableChain ==
    /\ pc = "dispatch"
    /\ first_extension \in Layerable
    /\ \/ /\ reader' = chain_reader_decoder(first_extension, reader).decoder
          /\ pc' = "ask_create"
          /\ Log(<<"decoder">>)
          /\ UNCHANGED result
       \/ /\ first_extension = "Zstd"
          /\ Finish("ErrDecoder")
          /\ UNCHANGED <<reader, events>>
    /\ UNCHANGED <<inputs, first_extension, extensions, todo, fsys, temp,
                   unpacking, vec, out_content, create_dir_result,
                   files_unpacked, reported>>

\* match utils::ask_to_create_file(&output_file_path, question_policy)?
ArmLayerableAsk ==
    /\ pc = "ask_create"
    /\ \E answer \in {"Some", "None", "Err"} :
          /\ Log(<<"ask_create:" \o answer>>)
          /\ CASE answer = "Some" ->
                    /\ fs_files' = fs_files \cup {output_file_path}
                    /\ fs_dirs' = fs_dirs \ {output_file_path}
                    /\ pc' = "copy"
                    /\ UNCHANGED result
               [] answer = "None" ->
                    /\ Finish("Ok")
                    /\ UNCHANGED fsys
               [] answer = "Err" ->
                    /\ Finish("ErrAsk")
                    /\ UNCHANGED fsys
    /\ UNCHANGED <<inputs, locals, temp, unpacking, vec, out_content,
                   create_dir_result, files_unpacked, reported>>

LayerableFilesUnpacked_PerLayer == Len(reader)

\* The value of the layerable arm: the literal 1
LayerableFilesUnpacked == 1

\* io::copy(&mut reader, &mut writer)?; 1
ArmLayerableCopy ==
    /\ pc = "copy"
    /\ Log(<<"write_file">>)
    /\ LET s == ReadThrough(reader, content)
       IN  \E io_ok \in BOOLEAN :
              IF ~s.ok THEN
                  /\ Finish("ErrDecode")
                  /\ UNCHANGED <<out_content, files_unpacked>>
              ELSE IF ~io_ok THEN
                  /\ Finish("ErrIo")
                  /\ UNCHANGED <<out_content, files_unpacked>>
              ELSE
                  /\ out_content' = {s}
                  /\ files_unpacked' = {LayerableFilesUnpacked}
                  /\ pc' = "report"
                  /\ UNCHANGED result
    /\ UNCHANGED <<inputs, locals, fsys, temp, unpacking, vec,
                   create_dir_result, reported>>

\* Tar => smart_unpack(|output_dir| tar::unpack_archive(reader, output_dir, quiet), ..)
ArmTar ==
    /\ pc = "dispatch"
    /\ first_extension = "Tar"
    /\ unpack_fn' = {[kind |-> "tar", src |-> "reader", path |-> "none"]}
    /\ return_site' = "tar"
    /\ pc' = "smart_unpack"
    /\ UNCHANGED <<inputs, locals, fsys, temp, unpack_arg, unpack_read,
                   unpack_result, vec, out_content, create_dir_result,
                   files_unpacked, reported, result, events>>

Guard_Skipped(next) ==
    /\ pc' = next
    /\ UNCHANGED <<result, events>>

\* if formats.len() > 1 { warn..(); if !user_wants_to_continue(..)? { return Ok(()) } }
Guard(next) ==
    IF Len(formats) > 1
    THEN \E answer \in {"true", "false", "Err"} :
            /\ Log(<<"warn", "guard", "guard:" \o answer>>)
            /\ CASE answer = "true" -> pc' = next /\ UNCHANGED result
                 [] answer = "false" -> Finish("Ok")
                 [] answer = "Err" -> Finish("ErrAsk")
    ELSE /\ pc' = next
         /\ UNCHANGED <<result, events>>

\* Zip => first half, up to the guard
ArmZipGuard ==
    /\ pc = "dispatch"
    /\ first_extension = "Zip"
    /\ Guard("zip_buffer")
    /\ UNCHANGED <<inputs, locals, fsys, temp, unpacking, vec, out_content,
                   create_dir_result, files_unpacked, reported>>

\* let mut vec = vec![]; io::copy(&mut reader, &mut vec)?; ZipArchive::new(Cursor::new(vec))?
ArmZipBuffer ==
    /\ pc = "zip_buffer"
    /\ Log(<<"drain">>)
    /\ LET s == ReadThrough(reader, content)
       IN  \E io_ok \in BOOLEAN, valid \in BOOLEAN :
              IF ~s.ok THEN
                  /\ Finish("ErrDecode")
                  /\ UNCHANGED <<vec, unpack_fn, return_site>>
              ELSE IF ~io_ok THEN
                  /\ Finish("ErrIo")
                  /\ UNCHANGED <<vec, unpack_fn, return_site>>
              ELSE IF ~valid \/ s.layers # <<>> THEN
                  /\ vec' = {s}
                  /\ Finish("ErrZip")
                  /\ UNCHANGED <<unpack_fn, return_site>>
              ELSE
                  /\ vec' = {s}
                  /\ unpack_fn' = {[kind |-> "zip", src |-> "vec", path |-> "none"]}
                  /\ return_site' = "zip"
                  /\ pc' = "smart_unpack"
                  /\ UNCHANGED result
    /\ UNCHANGED <<inputs, locals, fsys, temp, unpack_arg, unpack_read,
                   unpack_result, out_content, create_dir_result,
                   files_unpacked, reported>>

\* SevenZip => first half, up to the guard
ArmSevenZipGuard ==
    /\ pc = "dispatch"
    /\ first_extension = "SevenZip"
    /\ Guard("sevenz_buffer")
    /\ UNCHANGED <<inputs, locals, fsys, temp, unpacking, vec, out_content,
                   create_dir_result, files_unpacked, reported>>

\* let mut vec = vec![]; io::copy(&mut reader, &mut vec)?
ArmSevenZipBuffer ==
    /\ pc = "sevenz_buffer"
    /\ Log(<<"drain">>)
    /\ LET s == ReadThrough(reader, content)
       IN  \E io_ok \in BOOLEAN :
              IF ~s.ok THEN
                  /\ Finish("ErrDecode")
                  /\ UNCHANGED <<vec, unpack_fn, return_site>>
              ELSE IF ~io_ok THEN
                  /\ Finish("ErrIo")
                  /\ UNCHANGED <<vec, unpack_fn, return_site>>
              ELSE
                  /\ vec' = {s}
                  /\ unpack_fn' = {[kind |-> "sevenz", src |-> "vec", path |-> "none"]}
                  /\ return_site' = "sevenz"
                  /\ pc' = "smart_unpack"
                  /\ UNCHANGED result
    /\ UNCHANGED <<inputs, locals, fsys, temp, unpack_arg, unpack_read,
                   unpack_result, out_content, create_dir_result,
                   files_unpacked, reported>>

\* #[cfg(feature = "unrar")] Rar, formats.len() <= 1: the closure holds input_file_path
ArmRarSole ==
    /\ pc = "dispatch"
    /\ first_extension = "Rar"
    /\ unrar
    /\ ~(Len(formats) > 1)
    /\ unpack_fn' = {[kind |-> "rar", src |-> "path", path |-> input_file_path]}
    /\ return_site' = "rar"
    /\ pc' = "smart_unpack"
    /\ UNCHANGED <<inputs, locals, fsys, temp, unpack_arg, unpack_read,
                   unpack_result, vec, out_content, create_dir_result,
                   files_unpacked, reported, result, events>>

\* #[cfg(feature = "unrar")] Rar, formats.len() > 1: tempfile::NamedTempFile::new()?
ArmRarTempCreate ==
    /\ pc = "dispatch"
    /\ first_extension = "Rar"
    /\ unrar
    /\ Len(formats) > 1
    /\ \/ /\ Finish("ErrIo")
          /\ UNCHANGED <<fsys, temp_file, events>>
       \/ \E p \in TempPaths \ (fs_files \cup fs_dirs) :
             /\ temp_file' = {p}
             /\ fs_files' = fs_files \cup {p}
             /\ Log(<<"temp_create">>)
             /\ pc' = "rar_spool"
             /\ UNCHANGED <<fs_dirs, result>>
    /\ UNCHANGED <<inputs, locals, temp_content, unpacking, vec, out_content,
                   create_dir_result, files_unpacked, reported>>

\* io::copy(&mut reader, &mut temp_file)?; Box::new(move |output_dir| rar::unpack_archive(temp_file.path(), ..))
ArmRarSpoolCopy ==
    /\ pc = "rar_spool"
    /\ Log(<<"spool">>)
    /\ LET s == ReadThrough(reader, content)
       IN  \E io_ok \in BOOLEAN :
              IF ~s.ok \/ ~io_ok THEN
                  /\ Finish(IF ~s.ok THEN "ErrDecode" ELSE "ErrIo")
                  /\ DropTempFile
                  /\ UNCHANGED <<temp_content, unpack_fn, return_site>>
              ELSE
                  /\ temp_content' = {s}
                  /\ unpack_fn' = {[kind |-> "rar", src |-> "path", path |-> p] : p \in temp_file}
                  /\ return_site' = "rar"
                  /\ pc' = "smart_unpack"
                  /\ UNCHANGED <<temp_file, fs_files, result>>
    /\ UNCHANGED <<inputs, locals, fs_dirs, unpack_arg, unpack_read,
                   unpack_result, vec, out_content, create_dir_result,
                   files_unpacked, reported>>

ArmRarStub_Compiled ==
    /\ pc = "dispatch"
    /\ first_extension = "Rar"
    /\ ~unrar
    /\ unpack_fn' = {[kind |-> "rar", src |-> "path", path |-> input_file_path]}
    /\ return_site' = "rar"
    /\ pc' = "smart_unpack"
    /\ UNCHANGED <<inputs, locals, fsys, temp, unpack_arg, unpack_read,
                   unpack_result, vec, out_content, create_dir_result,
                   files_unpacked, reported, result, events>>

\* #[cfg(not(feature = "unrar"))] Rar => return Err(rar_stub::no_support())
ArmRarStub ==
    /\ pc = "dispatch"
    /\ first_extension = "Rar"
    /\ ~unrar
    /\ Finish("ErrUnsupported")
    /\ UNCHANGED <<inputs, locals, fsys, temp, unpacking, vec, out_content,
                   create_dir_result, files_unpacked, reported, events>>

\* ---------------------------------------------------------- smart_unpack
SmartUnpackCreateDir_Propagated ==
    /\ pc = "smart_unpack"
    /\ Log(<<"create_dir">>)
    /\ IF output_file_path \in fs_dirs \cup fs_files
       THEN /\ create_dir_result' = "AlreadyExists"
            /\ Finish("ErrIo")
            /\ DropTempFile
            /\ UNCHANGED fs_dirs
       ELSE \/ /\ create_dir_result' = "Ok"
               /\ fs_dirs' = fs_dirs \cup {output_file_path}
               /\ pc' = "unpack"
               /\ UNCHANGED <<result, fs_files, temp_file>>
            \/ /\ create_dir_result' = "Other"
               /\ Finish("ErrIo")
               /\ DropTempFile
               /\ UNCHANGED fs_dirs
    /\ UNCHANGED <<inputs, locals, temp_content, unpacking, vec, out_content,
                   files_unpacked, reported>>

\* assert!(output_dir.exists()); match fs::create_dir(&output_file_path) { Ok => info, Err => info }
SmartUnpackCreateDir ==
    /\ pc = "smart_unpack"
    /\ IF output_dir \notin fs_dirs
       THEN /\ Finish("Panic")
            /\ DropTempFile
            /\ UNCHANGED <<fs_dirs, create_dir_result, events>>
       ELSE /\ Log(<<"create_dir">>)
            /\ pc' = "unpack"
            /\ UNCHANGED <<result, fs_files, temp_file>>
            /\ IF output_file_path \in fs_dirs \cup fs_files
               THEN /\ create_dir_result' = "AlreadyExists"
                    /\ UNCHANGED fs_dirs
               ELSE \/ /\ create_dir_result' = "Ok"
                       /\ fs_dirs' = fs_dirs \cup {output_file_path}
                    \/ /\ create_dir_result' = "Other"
                       /\ UNCHANGED fs_dirs
    /\ UNCHANGED <<inputs, locals, temp_content, unpacking, vec, out_content,
                   files_unpacked, reported>>

\* The bytes an extractor closure reads when it is called.
SourceStream(f) ==
    CASE f.src = "file" -> content
      [] f.src = "reader" -> ReadThrough(reader, content)
      [] f.src = "vec" -> IF vec = {} THEN BadStream ELSE CHOOSE s \in vec : TRUE
      [] f.src = "path" ->
            IF f.path = input_file_path THEN content
            ELSE IF f.path \in temp_file /\ temp_content # {}
                 THEN CHOOSE s \in temp_content : TRUE
                 ELSE BadStream

\* crate::Result<usize> values an extractor can return on these bytes.
UnpackResults(s) ==
    {[ok |-> FALSE, files |-> 0]} \cup
    (IF s.ok /\ s.layers = <<>>
     THEN {[ok |-> TRUE, files |-> n] : n \in 0..MaxEntries}
     ELSE {})

UnpackRoot_OutputDir == output_dir

\* The path smart_unpack calls the closure with: unpack_fn(output_file_path)
UnpackRoot == output_file_path

\* let files = unpack_fn(output_file_path)?; Ok(ControlFlow::Continue(files))
SmartUnpackCall ==
    /\ pc = "unpack"
    /\ \E f \in unpack_fn :
          \E r \in UnpackResults(SourceStream(f)) :
             /\ unpack_arg' = {UnpackRoot}
             /\ unpack_read' = {SourceStream(f)}
             /\ unpack_result' = {r}
             /\ UNCHANGED unpack_fn
             /\ Log(<<"extract">>)
             /\ DropTempFile
             /\ IF r.ok
                THEN /\ files_unpacked' = {r.files}
                     /\ pc' = IF return_site = "sole_zip" THEN "report_zip" ELSE "report"
                     /\ UNCHANGED result
                ELSE /\ Finish("ErrUnpack")
                     /\ UNCHANGED files_unpacked
    /\ UNCHANGED <<inputs, locals, fs_dirs, temp_content, return_site, vec,
                   out_content, create_dir_result, reported>>

\* info!("Successfully decompressed archive in {} ({} files).", ..); return Ok(())
ReportSoleZip ==
    /\ pc = "report_zip"
    /\ reported' = files_unpacked
    /\ Log(<<"success_message">>)
    /\ Finish("Ok")
    /\ UNCHANGED <<inputs, locals, fsys, temp, unpacking, vec, out_content,
                   create_dir_result, files_unpacked>>

\* info!("Successfully decompressed archive in {}.", ..); info!("Files unpacked: {}", ..); Ok(())
Report ==
    /\ pc = "report"
    /\ reported' = files_unpacked
    /\ Log(<<"success_message">>)
    /\ Finish("Ok")
    /\ UNCHANGED <<inputs, locals, fsys, temp, unpacking, vec, out_content,
                   create_dir_result, files_unpacked>>

Next ==
    \/ Open
    \/ SoleZipOpen
    \/ SplitFirst
    \/ ChainStep
    \/ ArmLayerableChain
    \/ ArmLayerableAsk
    \/ ArmLayerableCopy
    \/ ArmTar
    \/ ArmZipGuard
    \/ ArmZipBuffer
    \/ ArmSevenZipGuard
    \/ ArmSevenZipBuffer
    \/ ArmRarSole
    \/ ArmRarTempCreate
    \/ ArmRarSpoolCopy
    \/ ArmRarStub
    \/ SmartUnpackCreateDir
    \/ SmartUnpackCall
    \/ ReportSoleZip
    \/ Report

Spec == Init /\ [][Next]_vars

TypeOK ==
    /\ pc \in {"start", "opened", "chain", "dispatch", "ask_create", "copy",
               "zip_buffer", "sevenz_buffer", "rar_spool", "smart_unpack",
               "unpack", "report_zip", "report", "done"}
    /\ result \in {"Running", "Ok", "Panic", "ErrOpen", "ErrZip", "ErrDecoder",
                   "ErrAsk", "ErrDecode", "ErrIo", "ErrUnsupported", "ErrUnpack"}
    /\ (pc = "done") = (result # "Running")

\* ------------------------------------------------------------ properties
flat == flatten_compression_formats(formats)

AllLayerable == \A i \in DOMAIN flat : flat[i] \in Layerable

TerminalOnlyLast == \A i \in DOMAIN flat : i < Len(flat) => flat[i] \in Layerable

\* The descriptor's archive format is f: the format the code dispatches on
\* (the first one) or the one the descriptor lists last.
ArchiveFormatIs(f) == Head(flat) = f \/ flat[Len(flat)] = f

Before(a, b) == Has(events, a) /\ Pos(events, a) < Pos(events, b)

\* decompress_file returned what the extractor returned.
OutcomeIsExtractors ==
    \E r \in unpack_result :
       IF r.ok THEN result = "Ok" /\ reported = {r.files}
               ELSE result = "ErrUnpack" /\ reported = {}

\* C1: when the descriptor's archive format is Zip or SevenZip and it has
\* more than one element, the guard (user_wants_to_continue) is consulted
\* before the decoder chain is drained, before any directory creation and
\* before the extractor runs; if the guard declines, the run returns success
\* with nothing buffered, no subdirectory created, no extractor invoked and
\* no success message.
C1_GuardBeforeBuffering ==
    ((ArchiveFormatIs("Zip") \/ ArchiveFormatIs("SevenZip")) /\ Len(formats) > 1) =>
        /\ \A e \in {"drain", "create_dir", "extract"} :
              Has(events, e) => Before("guard", e) /\ Before("guard:true", e)
        /\ vec # {} => Has(events, "guard:true")
        /\ Has(events, "guard:false") =>
              /\ pc = "done" /\ result = "Ok"
              /\ vec = {}
              /\ create_dir_result = "none"
              /\ output_file_path \in fs_dirs => ~Has(events, "create_dir")
              /\ ~Has(events, "drain")
              /\ ~Has(events, "create_dir")
              /\ ~Has(events, "extract")
              /\ unpack_result = {}
              /\ ~Has(events, "success_message")
              /\ reported = {}

C1_Witness ==
    /\ first_extension \in {"Zip", "SevenZip"}
    /\ Len(formats) > 1
    /\ Has(events, "guard:false")
    /\ result = "Ok"

\* C2: in the Rar path (feature unrar), a sole Rar descriptor hands the
\* extractor the original input path and never creates a temporary file; a
\* nested Rar hands it a temporary path distinct from the input path that
\* holds the fully decoded bytes, and the temporary file no longer exists when
\* decompress_file has returned, whatever the exit path.
C2_RarPaths ==
    (unrar /\ ArchiveFormatIs("Rar")) =>
        /\ Len(formats) = 1 =>
              /\ ~Has(events, "temp_create")
              /\ temp_file = {} /\ temp_content = {}
              /\ fs_files = {input_file_path}
              /\ \A f \in unpack_fn : f.path = input_file_path
              /\ Has(events, "extract") => unpack_read = {content}
        /\ Len(formats) > 1 =>
              /\ \A f \in unpack_fn :
                    /\ f.path # input_file_path
                    /\ Has(events, "temp_create")
                    /\ temp_content = {ReadThrough(reader, content)}
                    /\ ~Has(events, "extract") => f.path \in temp_file /\ f.path \in fs_files
              /\ Has(events, "extract") =>
                    /\ unpack_read = temp_content
                    /\ \A s \in unpack_read : s.ok
              /\ pc = "done" => temp_file = {} /\ fs_files = {input_file_path}

C2_Witness ==
    /\ unrar
    /\ first_extension = "Rar"
    /\ Len(formats) > 1
    /\ Has(events, "temp_create")
    /\ Has(events, "extract")
    /\ result = "ErrUnpack"
    /\ fs_files = {input_file_path}

\* C3 as stated: without the Rar extractor compiled in, a Rar run fails with
\* the unsupported-format error before any I/O: the input file is not opened,
\* no decoder is constructed, and the error is the unsupported-format error
\* whether or not the input can be opened or decoded.
C3_AsStated ==
    (~unrar /\ Head(flat) = "Rar" /\ output_dir \in fs_dirs /\ TerminalOnlyLast) =>
        /\ ~Has(events, "open_input")
        /\ ~Has(events, "decoder")
        /\ create_dir_result = "none"
        /\ out_content = {}
        /\ pc = "done" => result = "ErrUnsupported"

\* C3 amended: without the Rar extractor compiled in, a Rar run creates no
\* directory, writes no file, spools no temporary file, asks nothing and
\* invokes no extractor, and never succeeds; it returns the unsupported-format
\* error exactly when it gets as far as the dispatch, that is after the input
\* file was opened and the decoders of the remaining formats were built, and
\* otherwise returns the earlier failure (open error, decoder error, panic).
C3_StubAfterOpen ==
    (~unrar /\ ArchiveFormatIs("Rar")) =>
        /\ \A e \in {"create_dir", "extract", "write_file", "temp_create",
                     "spool", "drain", "guard", "success_message"} :
              ~Has(events, e)
        /\ create_dir_result = "none"
        /\ fs_files = {input_file_path}
        /\ out_content = {} /\ vec = {} /\ unpack_fn = {}
        /\ pc = "done" =>
              /\ result \in {"ErrUnsupported", "ErrOpen", "ErrDecoder", "Panic"}
              /\ (result = "ErrUnsupported") =
                    (first_extension = "Rar" /\ todo = <<>>)
              /\ result = "ErrUnsupported" =>
                    Has(events, "open_input") /\ Len(reader) = Len(flat) - 1

C3_Witness ==
    /\ ~unrar
    /\ Head(flat) = "Rar"
    /\ result = "ErrUnsupported"
    /\ Has(events, "open_input")
    /\ Len(reader) > 0

\* C4 as stated: if creating the per-archive subdirectory fails for a reason
\* other than the directory already existing, the extractor is not invoked
\* and decompress_file returns an error.
C4_AsStated ==
    create_dir_result = "Other" =>
        /\ ~Has(events, "extract")
        /\ pc = "done" => result \notin {"Ok", "Running"}

\* C4 amended: if creating the per-archive subdirectory fails for a reason
\* other than the directory already existing, the failure is only logged: the
\* extractor is still invoked with the subdirectory path and decompress_file
\* returns the extractor's outcome.
C4_CreateDirFailureLogged ==
    create_dir_result = "Other" =>
        /\ pc \in {"unpack", "report", "report_zip", "done"}
        /\ pc # "unpack" =>
              /\ Has(events, "extract")
              /\ unpack_arg = {output_file_path}
        /\ pc = "done" => OutcomeIsExtractors

C4_Witness ==
    /\ create_dir_result = "Other"
    /\ Has(events, "extract")
    /\ result = "Ok"

\* C5 as stated: for an all-Layerable descriptor listed outermost first, the
\* decoder that reads the raw input is the one of the first-listed format and
\* each further decoder reads the previous one's output, so the chain's output
\* is the original bytes encoded by the matching encoder chain.
C5_AsStated ==
    (AllLayerable /\ content = EncodeOutermostFirst(flat, content.payload)) =>
        /\ Has(events, "write_file") => reader = flat
        /\ result # "ErrDecode"
        /\ out_content # {} => out_content = {Stream(<<>>, content.payload)}

\* C6: a descriptor of exactly one Zip element is extracted through an
\* archive handle opened directly on the input file: nothing is drained into
\* an in-memory buffer, no decoder is constructed, the guard is never
\* consulted.
C6_SoleZipSeekable ==
    formats = <<Extension("Zip")>> =>
        /\ vec = {}
        /\ reader = <<>>
        /\ \A e \in {"drain", "decoder", "guard", "warn"} : ~Has(events, e)
        /\ \A f \in unpack_fn : f.kind = "zip" /\ f.src = "file"
        /\ unpack_read \subseteq {content}
        /\ pc \in {"smart_unpack", "unpack", "report_zip"} => Has(events, "zip_open")
        /\ Has(events, "extract") => Has(events, "zip_open") /\ unpack_read = {content}

C6_Witness ==
    /\ formats = <<Extension("Zip")>>
    /\ Has(events, "extract")
    /\ result = "Ok"

\* C7 as stated: every successful run on an all-Layerable descriptor reports
\* exactly 1 file produced.
C7_AsStated ==
    (AllLayerable /\ result = "Ok") => reported = {1}

\* C7 amended: a successful run on an all-Layerable descriptor reports
\* exactly 1 file produced unless the overwrite confirmation declined to
\* create the output file, in which case it writes nothing and reports no
\* file count at all.
C7_OneFileUnlessDeclined ==
    AllLayerable =>
        /\ reported \subseteq {1}
        /\ files_unpacked \subseteq {1}
        /\ result = "Ok" =>
              IF Has(events, "ask_create:None")
              THEN reported = {} /\ out_content = {} /\ ~Has(events, "write_file")
              ELSE reported = {1} /\ Has(events, "write_file")

C7_Witness ==
    /\ AllLayerable
    /\ Len(flat) > 1
    /\ result = "Ok"
    /\ reported = {1}

\* C8: if the per-archive subdirectory already exists when smart_unpack tries
\* to create it, the run does not fail there: the extractor is still invoked
\* with that subdirectory as its root and decompress_file's outcome is the
\* extractor's outcome.
C8_ExistingSubdirTolerated ==
    (create_dir_result = "AlreadyExists" /\ output_file_path \in fs_dirs) =>
        /\ pc \in {"unpack", "report", "report_zip", "done"}
        /\ pc = "unpack" => result = "Running"
        /\ pc # "unpack" =>
              /\ Has(events, "extract")
              /\ unpack_arg = {output_file_path}
        /\ pc = "done" => OutcomeIsExtractors

C8_Witness ==
    /\ create_dir_result = "AlreadyExists"
    /\ output_file_path \in fs_dirs
    /\ Has(events, "extract")
    /\ pc = "done"

\* C9 as stated: for every non-empty descriptor in which only the last
\* element may be Tar, Zip, Rar or SevenZip, the extraction path is chosen
\* from that last element and only Layerable formats reach the chaining step,
\* so its unreachable branch is never hit; descriptor [Gzip, Tar] is
\* extracted by the tar extractor reading gzip-decoded bytes.
C9_AsStated ==
    (TerminalOnlyLast /\ output_dir \in fs_dirs) =>
        /\ result # "Panic"
        /\ (flat[Len(flat)] \in Archive /\ first_extension # "none" /\ pc = "smart_unpack") =>
              first_extension = flat[Len(flat)]
        /\ (flat = <<"Gzip", "Tar">> /\ Has(events, "extract")) =>
              /\ \A f \in unpack_fn : f.kind = "tar" /\ f.src = "reader"
              /\ reader = <<"Gzip">>

\* C10: a run attempts at most one directory creation and invokes at most one
\* extractor; every extractor invocation comes after the attempt to create
\* the per-archive subdirectory and receives that subdirectory path
\* (output_file_path), never the caller's output_dir.
C10_OneDirOneExtractor ==
    /\ Count(events, "create_dir") <= 1
    /\ Count(events, "extract") <= 1
    /\ Has(events, "extract") =>
          /\ Before("create_dir", "extract")
          /\ unpack_arg = {output_file_path}
          /\ output_dir \notin unpack_arg
    /\ ~Has(events, "extract") => unpack_arg = {}

C10_Witness ==
    /\ Has(events, "extract")
    /\ create_dir_result = "Ok"
    /\ output_file_path \in fs_dirs
    /\ first_extension = "Tar"

====
